---- MODULE Spec2Model ----
(***************************************************************************)
(* The agent-orchestration core of the trading platform: TradingSystem     *)
(* (core/system.rs) with its message bus and pump, the shared              *)
(* SystemContext behind one RwLock, the five role workers built on         *)
(* BaseAgent (agents/traits.rs) and the start / run / shutdown sequence    *)
(* that main.rs drives.                                                    *)
(***************************************************************************)
EXTENDS Integers, Sequences, FiniteSets, TLC

\* ------------------------------------------------------------------------
\* Roles, in the order run() spawns their tasks
\* ------------------------------------------------------------------------
StartOrder ==
    <<"coordinator", "intelligence", "risk_management", "execution", "learning">>

Roles == {StartOrder[i] : i \in 1..Len(StartOrder)}

RoleIndex(r) == CHOOSE i \in 1..Len(StartOrder) : StartOrder[i] = r

\* ------------------------------------------------------------------------
\* Bounds of the model
\* ------------------------------------------------------------------------
\* messages enqueued on the (unbounded) bus in one behaviour
MaxSends == 2

\* longest unit of work, in time units
MaxWork == 3

\* most time units an interval can fall behind before its lag stops growing
MaxLag == 2

\* concurrent incrementing mutations of the shared context
MaxMutators == 2

\* records created on the thought stream in one behaviour
MaxThoughts == 3

\* slots of the broadcast channel's ring; the code's ring holds 1000
\* records (ai_thoughts.rs:212), scaled here so that a subscriber can fall
\* a full ring behind within MaxThoughts records
ChannelCapacity == 2

\* interval periods a role can be configured with, in time units
Periods == {1, 3}

\* ------------------------------------------------------------------------
\* Messages
\* ------------------------------------------------------------------------
MsgTypes == {"PerformanceUpdate", "RiskAlert", "EmergencyShutdown", "SystemCommand"}

\* a PerformanceMetrics value; the two counters stand for the ten fields
Metrics(n) == [total_trades |-> n, winning_trades |-> n]

\* a JSON object without the fields of PerformanceMetrics
Json == [reason |-> "text"]

\* payloads a producer can attach: a JSON object that decodes as
\* PerformanceMetrics, or one that does not
Payloads == {Metrics(1), Json}

\* serde_json::from_value::<PerformanceMetrics>(payload) is Ok
Decodes(payload) == DOMAIN payload = {"total_trades", "winning_trades"}

NoMsg == [id |-> 0, from |-> "none", type |-> "none", payload |-> Json]

\* ------------------------------------------------------------------------
\* Configuration inputs (SystemConfig, accepted as validated)
\* ------------------------------------------------------------------------
\* risk.max_daily_loss and risk.max_portfolio_heat (in percent); validate()
\* bounds max_daily_loss only from above
RiskConfigs ==
    { [max_daily_loss |-> 2,  max_portfolio_heat |-> 80],
      [max_daily_loss |-> -1, max_portfolio_heat |-> 80],
      [max_daily_loss |-> -1, max_portfolio_heat |-> -1] }

\* the sets of roles with agents.<role>.enabled that are explored together
\* with an outside producer on the bus
EnabledConfigs ==
    { {"coordinator", "risk_management", "learning"},
      {"risk_management", "execution"},
      {} }

VARIABLES
    enabled,          \* config.agents.<role>.enabled
    risk_config,      \* config.risk
    agents,           \* AgentRegistry: role -> handle present
    mainPc,           \* position of main(): new, started, running, ...
    sdIdx,            \* shutdown(): index in StartOrder of the next role
    shutdown_signal,  \* TradingSystem.shutdown_signal
    agent_shutdown,   \* BaseAgent.shutdown_signal of each role
    queue,            \* the unbounded mpsc channel
    nsent,            \* number of messages enqueued so far
    pumpPc,           \* process_messages: none, check, recv, match, done
    pumpMsg,          \* the message process_messages holds
    pumpExit,         \* why the pump loop ended
    processed,        \* the messages the pump dequeued, in order
    system_context,   \* the SystemContext behind the orchestrator's RwLock
    samplerPc,        \* monitor_system_health: none, tick, done
    wpc,              \* each role's run(): none, select, work, stopped
    outbox,           \* messages a unit of work still has to send
    reqInWork,        \* (time tracked) the flag was set during a unit of work
    timed,            \* TRUE when timer values are tracked
    period,           \* each role's interval period
    tickLeft,         \* time until the interval's next deadline (<= 0: ready)
    sleepLeft,        \* time until the shutdown-poll sleep elapses
    workLeft,         \* remaining duration of the unit of work
    ctx_lock,         \* the RwLock around system_context: holders
    committed,        \* the contexts a writer left behind at its release
    rpc,              \* get_system_context of each role: idle .. done
    snap,             \* the copy get_system_context builds and returns
    seen,             \* the context at the moment the read guard was taken
    mpc,              \* each incrementing mutation: idle .. done
    mval,             \* the counter value an incrementing mutation read
    failed,           \* (faults tracked) a unit of work of the role failed
    max_history,      \* AIThoughtBroadcaster.max_history
    thought_history,  \* AIThoughtBroadcaster.thought_history
    thought_lock,     \* the RwLock around thought_history: holders
    channel,          \* the broadcast channel: every record it stored
    nthoughts,        \* number of records created so far
    pushlog,          \* every record pushed to the history, in push order
    completed,        \* ids of the records whose broadcast_thought returned
    ppc,              \* broadcast_thought of each publisher: idle .. send
    prec,             \* the record a publisher is publishing
    unsent,           \* ids of the records whose send found no receiver
    errors,           \* ids of the records whose publish reported an error
    rx,               \* each subscriber's Receiver: state, first and next
                      \* position in the channel
    stream,           \* the records each subscriber received, in order
    doneAtSub,        \* the completed ids when subscribe() returned
    histAtSub,        \* the ids in the history when subscribe() returned
    qres,             \* the last history query and what it returned
    draft,            \* the AIThought under construction
    classified,       \* the errors classified so far, with the answers
    ltask             \* each task's walk through its lock operations

vars ==
    << enabled, risk_config, agents, mainPc, sdIdx, shutdown_signal,
       agent_shutdown, queue, nsent, pumpPc, pumpMsg, pumpExit, processed,
       system_context, samplerPc, wpc, outbox, reqInWork, timed, period,
       tickLeft, sleepLeft, workLeft, ctx_lock, committed, rpc, snap, seen,
       mpc, mval, failed, max_history, thought_history, thought_lock,
       channel, nthoughts, pushlog, completed, ppc, prec, unsent, errors, rx,
       stream,
       doneAtSub, histAtSub, qres, draft, classified, ltask >>

historyVars == << thought_history, thought_lock, pushlog >>
publisherVars == << nthoughts, completed, ppc, prec, unsent, errors >>
subscriberVars == << rx, stream, doneAtSub, histAtSub >>
thoughtVars ==
    << max_history, historyVars, channel, publisherVars, subscriberVars, qres >>
pureVars == << draft, classified, ltask >>
auxVars == << thoughtVars, failed, pureVars >>
systemVars ==
    << enabled, risk_config, agents, mainPc, sdIdx, shutdown_signal,
       agent_shutdown, queue, nsent, pumpPc, pumpMsg, pumpExit, processed,
       system_context, samplerPc, wpc, outbox, reqInWork, timed, period,
       tickLeft, sleepLeft, workLeft, ctx_lock, committed, rpc, snap, seen,
       mpc, mval >>

lockVars == << ctx_lock, committed >>
readVars == << rpc, snap, seen >>
mutVars == << mpc, mval >>
ctxVars == << lockVars, readVars, mutVars >>
cfgVars == << enabled, risk_config, timed, period >>
mainVars == << agents, mainPc, sdIdx >>
busVars == << queue, nsent >>
pumpVars == << pumpPc, pumpMsg, pumpExit, processed >>
timerVars == << tickLeft, sleepLeft, workLeft >>
workerVars == << wpc, outbox, tickLeft, sleepLeft, workLeft >>
flagVars == << agent_shutdown, reqInWork >>

\* ------------------------------------------------------------------------
\* SystemContext
\* ------------------------------------------------------------------------
InitialContext ==
    [ market_regime       |-> "Sideways",
      total_value         |-> 100,
      daily_pnl           |-> 0,
      portfolio_heat      |-> 0,
      performance_metrics |-> Metrics(0),
      active_positions    |-> 0,
      available_capital   |-> 100,
      system_health       |-> "Healthy" ]

Abs(x) == IF x < 0 THEN -x ELSE x

Min(a, b) == IF a < b THEN a ELSE b

\* the RwLock around the context: the number of read guards alive and
\* whether a write guard is alive
Unlocked == [readers |-> 0, writer |-> FALSE]

\* a faulty lock that hands out a write guard while another is alive
CanWriteBesideWriter(lock) == lock.readers = 0

\* RwLock::write completes: no guard of either kind is alive
CanWrite(lock) == lock.readers = 0 /\ ~lock.writer

\* a faulty lock that hands out a read guard while a write guard is alive
CanReadBesideWriter(lock) == TRUE

\* RwLock::read completes: no write guard is alive
CanRead(lock) == ~lock.writer

\* the roles whose BaseAgent holds the orchestrator's context
ContextReaders == {"coordinator", "risk_management", "learning"}

\* the concurrent callers of the exclusive mutation
Mutators == 1..MaxMutators

\* ------------------------------------------------------------------------
\* The thought stream: AIThoughtBroadcaster (core/ai_thoughts.rs).  The
\* orchestrator's specifications leave it as constructed; it is explored
\* on its own, with publishers and subscribers holding clones.
\* ------------------------------------------------------------------------
\* the history capacity TradingSystem::new passes to the broadcaster
SystemHistory == 1000

\* the source tags records are published with
AIAgents == {"RiskManager", "LearningEngine"}

\* an AIThought: id, source agent and educational flag; the other fields
\* are carried along unchanged
Thought(id, agent, educational) ==
    [id |-> id, agent |-> agent, educational |-> educational]

NoThought == Thought(0, "none", FALSE)

\* the kinds of record the sources build: ThoughtTemplates::risk_assessment,
\* the learning engine's educational and its plain records
ThoughtKinds ==
    { [agent |-> "RiskManager", educational |-> FALSE],
      [agent |-> "LearningEngine", educational |-> TRUE],
      [agent |-> "LearningEngine", educational |-> FALSE] }

\* the holders of clones that publish, and the subscribers
Publishers == {"p1", "p2"}

Subscribers == {"s1", "s2"}

\* history capacities a broadcaster is created with
Capacities == 0..2

\* and those explored together with subscribers
StreamCapacities == 1..2

\* the limits a history query is called with
Limits == 0..3

\* the tasks that take locks: the pump, the sampler, a role's worker, the
\* caller of shutdown(), a publisher and a reader of the thought history
LockTasks == {"pump", "sampler", "worker", "shutdown", "publisher", "query"}

\* a task between two walks, holding nothing
IdleTask == [path |-> << >>, at |-> 1, held |-> {}]

\* no AIThought is under construction
NoDraft == [built |-> FALSE]

NoQuery ==
    [kind |-> "none", agent |-> "none", limit |-> 0, out |-> << >>]

Ids(records) == {records[i].id : i \in 1..Len(records)}

\* AIThoughtBroadcaster::new, but for max_history
BroadcasterNew ==
    /\ thought_history = << >>
    /\ thought_lock = Unlocked
    /\ channel = << >>
    /\ nthoughts = 0
    /\ pushlog = << >>
    /\ completed = {}
    /\ ppc = [p \in Publishers |-> "idle"]
    /\ prec = [p \in Publishers |-> NoThought]
    /\ unsent = {}
    /\ errors = {}
    /\ rx = [s \in Subscribers |-> [state |-> "none", start |-> 1, next |-> 1]]
    /\ stream = [s \in Subscribers |-> << >>]
    /\ doneAtSub = [s \in Subscribers |-> {}]
    /\ histAtSub = [s \in Subscribers |-> {}]
    /\ qres = NoQuery

\* broadcast_thought is called with a new record and takes the write
\* guard of the history
PubBegin(p) ==
    /\ ppc[p] = "idle"
    /\ nthoughts < MaxThoughts
    /\ CanWrite(thought_lock)
    /\ \E kind \in ThoughtKinds :
          prec' = [prec EXCEPT ![p] = Thought(nthoughts + 1, kind.agent,
                                              kind.educational)]
    /\ nthoughts' = nthoughts + 1
    /\ thought_lock' = [thought_lock EXCEPT !.writer = TRUE]
    /\ ppc' = [ppc EXCEPT ![p] = "locked"]
    /\ UNCHANGED << max_history, thought_history, pushlog, channel,
                    completed, unsent, errors, subscriberVars, qres, failed,
                    pureVars,
                    systemVars >>

\* history.push(thought.clone())
PubPush(p) ==
    /\ ppc[p] = "locked"
    /\ thought_history' = Append(thought_history, prec[p])
    /\ pushlog' = Append(pushlog, prec[p])
    /\ ppc' = [ppc EXCEPT ![p] = "pushed"]
    /\ UNCHANGED << max_history, thought_lock, channel, nthoughts,
                    completed, prec, unsent, errors,
                    subscriberVars, qres, failed, pureVars,
                    systemVars >>

\* history.len() > self.max_history, with a condition off by one
OverflowsLate(len, max) == len > max + 1

\* history.len() > self.max_history
Overflows(len, max) == len > max

\* an eviction that takes the newest record
EvictNewest(history) == SubSeq(history, 1, Len(history) - 1)

\* history.remove(0)
Evict(history) == Tail(history)

\* history.remove(0) on overflow; the write guard is dropped
PubTrim(p) ==
    /\ ppc[p] = "pushed"
    /\ thought_history' =
          IF Overflows(Len(thought_history), max_history)
             THEN Evict(thought_history)
             ELSE thought_history
    /\ thought_lock' = [thought_lock EXCEPT !.writer = FALSE]
    /\ ppc' = [ppc EXCEPT ![p] = "send"]
    /\ UNCHANGED << max_history, pushlog, channel, nthoughts, completed,
                    prec, unsent, errors, subscriberVars, qres, failed,
                    pureVars,
                    systemVars >>

LiveSubscribers == {s \in Subscribers : rx[s].state = "live"}

\* a broadcast_thought that hands the failure of send to its caller
PublishResultOfSend(sendOk) == IF sendOk THEN "ok" ELSE "error"

\* what broadcast_thought returns: the failure of send is logged
PublishResult(sendOk) == "ok"

\* self.sender.send(thought): Err when no receiver is alive, else the
\* record is stored in the ring; broadcast_thought returns
PubSend(p) ==
    /\ ppc[p] = "send"
    /\ LET sendOk == LiveSubscribers # {}
       IN  /\ channel' = IF sendOk THEN Append(channel, prec[p]) ELSE channel
           /\ unsent' = IF sendOk THEN unsent ELSE unsent \cup {prec[p].id}
           /\ errors' = IF PublishResult(sendOk) = "ok"
                           THEN errors
                           ELSE errors \cup {prec[p].id}
    /\ completed' = completed \cup {prec[p].id}
    /\ prec' = [prec EXCEPT ![p] = NoThought]
    /\ ppc' = [ppc EXCEPT ![p] = "idle"]
    /\ UNCHANGED << max_history, historyVars, nthoughts, subscriberVars,
                    qres, failed, pureVars,
                    systemVars >>

\* the history as a reader can find it: a push whose write guard is still
\* held is not yet visible
VisibleHistory ==
    IF \E p \in Publishers : ppc[p] = "pushed"
       THEN SubSeq(thought_history, 1, Len(thought_history) - 1)
       ELSE thought_history

\* a subscribe that hands out a receiver positioned at the oldest record
\* the ring retains
SubscribeStartAtOldest(len) == IF len > ChannelCapacity THEN len - ChannelCapacity + 1 ELSE 1

\* Sender::subscribe: the receiver starts behind the last stored record
SubscribeStart(len) == len + 1

\* subscribe()
Subscribe(s) ==
    /\ rx[s].state = "none"
    /\ rx' = [rx EXCEPT ![s] = [state |-> "live",
                                start |-> SubscribeStart(Len(channel)),
                                next |-> SubscribeStart(Len(channel))]]
    /\ doneAtSub' = [doneAtSub EXCEPT ![s] = completed]
    /\ histAtSub' = [histAtSub EXCEPT ![s] = Ids(VisibleHistory)]
    /\ UNCHANGED << max_history, historyVars, channel, publisherVars,
                    stream, qres, failed, pureVars,
                    systemVars >>

\* a ring that retains one record fewer than its capacity
OldestRetainedShort ==
    IF Len(channel) >= ChannelCapacity
       THEN Len(channel) - ChannelCapacity + 2
       ELSE 1

\* the position of the oldest record the ring still retains
OldestRetained ==
    IF Len(channel) > ChannelCapacity
       THEN Len(channel) - ChannelCapacity + 1
       ELSE 1

\* Receiver::recv with a record stored at or after the receiver's
\* position: when the ring has overwritten that position it returns
\* Lagged and moves the receiver to the oldest retained record, else it
\* returns the record
Recv(s) ==
    /\ rx[s].state = "live"
    /\ rx[s].next <= Len(channel)
    /\ IF rx[s].next < OldestRetained
          THEN /\ rx' = [rx EXCEPT ![s].next = OldestRetained]
               /\ UNCHANGED stream
          ELSE /\ stream' = [stream EXCEPT ![s] = Append(@, channel[rx[s].next])]
               /\ rx' = [rx EXCEPT ![s].next = @ + 1]
    /\ UNCHANGED << max_history, historyVars, channel, publisherVars,
                    doneAtSub, histAtSub, qres, failed, pureVars,
                    systemVars >>

\* the receiver is dropped
Unsubscribe(s) ==
    /\ rx[s].state = "live"
    /\ rx' = [rx EXCEPT ![s].state = "dropped"]
    /\ UNCHANGED << max_history, historyVars, channel, publisherVars,
                    stream, doneAtSub, histAtSub, qres, failed, pureVars,
                    systemVars >>

Reverse(seq) == [i \in 1..Len(seq) |-> seq[Len(seq) + 1 - i]]

Take(seq, n) == SubSeq(seq, 1, Min(n, Len(seq)))

\* get_recent_thoughts: history[start..].to_vec()
GetRecentThoughts(history, limit) ==
    LET start == IF Len(history) > limit THEN Len(history) - limit ELSE 0
    IN  SubSeq(history, start + 1, Len(history))

\* get_thoughts_by_agent: filter, rev, take(limit)
GetThoughtsByAgent(history, agent, limit) ==
    Take(Reverse(SelectSeq(history, LAMBDA t : t.agent = agent)), limit)

\* get_educational_thoughts: filter, rev, take(limit)
GetEducationalThoughts(history, limit) ==
    Take(Reverse(SelectSeq(history, LAMBDA t : t.educational)), limit)

\* one of the three history queries, under the read guard
Query ==
    /\ CanRead(thought_lock)
    /\ \E limit \in Limits :
          \/ qres' = [kind |-> "recent", agent |-> "none", limit |-> limit,
                      out |-> GetRecentThoughts(thought_history, limit)]
          \/ \E agent \in AIAgents :
                qres' = [kind |-> "by_agent", agent |-> agent, limit |-> limit,
                            out |-> GetThoughtsByAgent(thought_history, agent, limit)]
          \/ qres' = [kind |-> "educational", agent |-> "none",
                      limit |-> limit,
                      out |-> GetEducationalThoughts(thought_history, limit)]
    /\ UNCHANGED << max_history, historyVars, channel, publisherVars,
                    subscriberVars, failed, pureVars,
                    systemVars >>

\* ------------------------------------------------------------------------
\* Message bus
\* ------------------------------------------------------------------------
Msg(from, type, payload) ==
    [id |-> nsent + 1, from |-> from, type |-> type, payload |-> payload]

\* a receiver owned by the pump task alone: dropped when the pump returns
ReceiverOpenWhilePumpRuns == pumpPc # "done"

\* the receiver is alive: MessageBus keeps it behind an Arc and the pump
\* task only holds a clone of that Arc
ReceiverOpen == TRUE

\* a channel of capacity one: a send waits while a message is queued
HasRoomBounded(q) == Len(q) < 1

\* mpsc::unbounded_channel: a send finds room whatever is queued
HasRoom(q) == TRUE

\* UnboundedSender::send: append to the channel.  The bus keeps the receiver
\* behind an Arc for the orchestrator's lifetime and nothing closes it, so
\* send has no Err to return.
Enqueue(m) ==
    /\ nsent < MaxSends
    /\ HasRoom(queue)
    /\ queue' = IF ReceiverOpen THEN Append(queue, m) ELSE queue
    /\ nsent' = IF ReceiverOpen THEN nsent + 1 ELSE nsent

\* MessageBus::broadcast: the orchestrator's own sender
Broadcast ==
    /\ mainPc \notin {"new"}
    /\ \E type \in MsgTypes, payload \in Payloads :
          /\ (type # "PerformanceUpdate") => payload = Json
          /\ Enqueue(Msg("bus", type, payload))
    /\ UNCHANGED << ctxVars, cfgVars, auxVars, mainVars, shutdown_signal,
                    flagVars, pumpVars, system_context, samplerPc,
                    workerVars >>

\* ------------------------------------------------------------------------
\* The pump: TradingSystem::process_messages and route_message
\* ------------------------------------------------------------------------
\* a pump that drains the channel before it obeys the flag
PumpBreaksWhenDrained(flag, q) == flag /\ q = << >>

\* if *shutdown { break; }: the value of the flag alone decides
PumpBreaks(flag, q) == flag

\* top of the loop: read the global flag, break when it is set
PumpCheck ==
    /\ pumpPc = "check"
    /\ IF PumpBreaks(shutdown_signal, queue)
          THEN pumpPc' = "done" /\ pumpExit' = "flag"
          ELSE pumpPc' = "recv" /\ pumpExit' = pumpExit
    /\ UNCHANGED << ctxVars, cfgVars, auxVars, mainVars, shutdown_signal,
                    flagVars, busVars, pumpMsg, processed, system_context,
                    samplerPc, workerVars >>

RecvIndexLast(q) == Len(q)

\* the element rx.recv() yields: the oldest one queued
RecvIndex(q) == 1

\* a receive that leaves the element in the channel
RemoveNothing(q, i) == q

\* the channel after recv took element i
RemoveAt(q, i) == SubSeq(q, 1, i - 1) \o SubSeq(q, i + 1, Len(q))

\* rx.recv().await: waits, with no timeout, until a message is queued.  The
\* orchestrator keeps its own sender, so recv never yields None.
PumpRecv ==
    /\ pumpPc = "recv"
    /\ queue # << >>
    /\ pumpMsg' = queue[RecvIndex(queue)]
    /\ queue' = RemoveAt(queue, RecvIndex(queue))
    /\ processed' = Append(processed, queue[RecvIndex(queue)])
    /\ pumpPc' = "match"
    /\ UNCHANGED << ctxVars, cfgVars, auxVars, mainVars, shutdown_signal,
                    flagVars, nsent, pumpExit, system_context, samplerPc,
                    workerVars >>

\* a match whose break arm also takes risk alerts
IsEmergencyOrRiskAlert(m) == m.type \in {"EmergencyShutdown", "RiskAlert"}

IsEmergencyAsRiskAlert(m) == m.type = "RiskAlert"

\* the outer match of process_messages
IsEmergency(m) == m.type = "EmergencyShutdown"

\* EmergencyShutdown arm: set the global flag and break
PumpEmergency ==
    /\ pumpPc = "match"
    /\ IsEmergency(pumpMsg)
    /\ shutdown_signal' = TRUE
    /\ pumpPc' = "done"
    /\ pumpExit' = "emergency"
    /\ pumpMsg' = NoMsg
    /\ UNCHANGED << ctxVars, cfgVars, auxVars, mainVars, flagVars, busVars,
                    processed, system_context, samplerPc, workerVars >>

\* the message types an arm of process_messages or route_message names
HandledTypes == {"EmergencyShutdown", "PerformanceUpdate", "RiskAlert"}

\* a router whose catch-all arm marks the system degraded
RouteResultFlagsUnhandled(ctx, m) ==
    IF m.type = "PerformanceUpdate" /\ Decodes(m.payload)
       THEN [ctx EXCEPT !.performance_metrics = m.payload]
       ELSE IF m.type \notin HandledTypes
               THEN [ctx EXCEPT !.system_health = "Degraded"]
               ELSE ctx

\* a router that stores default metrics when the payload does not decode
RouteResultDefaultOnError(ctx, m) ==
    IF m.type = "PerformanceUpdate"
       THEN [ctx EXCEPT !.performance_metrics =
                IF Decodes(m.payload) THEN m.payload ELSE Metrics(0)]
       ELSE ctx

\* route_message: the context the router leaves behind
RouteResult(ctx, m) ==
    IF m.type = "PerformanceUpdate" /\ Decodes(m.payload)
       THEN [ctx EXCEPT !.performance_metrics = m.payload]
       ELSE ctx

\* every other arm: route the message, then loop
PumpRoute ==
    /\ pumpPc = "match"
    /\ ~IsEmergency(pumpMsg)
    /\ system_context' = RouteResult(system_context, pumpMsg)
    /\ committed' = committed \cup {system_context'}
    /\ pumpPc' = "check"
    /\ pumpMsg' = NoMsg
    /\ UNCHANGED << ctx_lock, readVars, mutVars, cfgVars, auxVars, mainVars,
                    shutdown_signal, flagVars, busVars, pumpExit, processed,
                    samplerPc, workerVars >>

\* ------------------------------------------------------------------------
\* The sampler: TradingSystem::monitor_system_health
\* ------------------------------------------------------------------------
\* after a tick of the 10 s interval: break when the global flag is set
SamplerStop ==
    /\ samplerPc = "tick"
    /\ shutdown_signal
    /\ samplerPc' = "done"
    /\ UNCHANGED << ctxVars, cfgVars, auxVars, mainVars, shutdown_signal,
                    flagVars, busVars, pumpVars, system_context, workerVars >>

\* otherwise read the context under the read lock, export the gauges and
\* wait for the next tick
SamplerRead ==
    /\ samplerPc = "tick"
    /\ ~shutdown_signal
    /\ samplerPc' = "tick"
    /\ UNCHANGED << ctxVars, cfgVars, auxVars, mainVars, shutdown_signal,
                    flagVars, busVars, pumpVars, system_context, workerVars >>

\* ------------------------------------------------------------------------
\* main(): new, start, then run raced against ctrl-c, which calls shutdown
\* ------------------------------------------------------------------------
\* TradingSystem::start: one handle per enabled role, each BaseAgent with a
\* shutdown flag of its own, initially false
\* a start() that registers every role, whatever its enabled flag
RegisteredAlways(r, cfg) == TRUE

\* start() fills the registry slot of role r: agents.<role>.enabled guards
\* the block that builds the agent and stores Some(agent)
Registered(r, cfg) == r \in cfg

Start ==
    /\ mainPc = "new"
    /\ agents' = [r \in Roles |-> Registered(r, enabled)]
    /\ mainPc' = "started"
    /\ UNCHANGED << ctxVars, cfgVars, auxVars, sdIdx, shutdown_signal,
                    flagVars, busVars, pumpVars, system_context, samplerPc,
                    workerVars >>

\* an interval whose first tick comes one period after its creation
FirstTickAfterPeriod(r) == period[r]

\* tokio::time::interval: the first tick completes immediately
FirstTick(r) == 0

\* the poll sleep a select! creates
PollSleep == 2

SleepInit == IF timed THEN PollSleep ELSE 0

\* TradingSystem::run up to its select!: spawn the pump, the sampler and
\* one task per registered role.  run() has no await before the select!,
\* so main() cannot be interrupted in between.  A new interval's first
\* tick is ready at once.
Run ==
    /\ mainPc = "started"
    /\ pumpPc' = "check"
    /\ samplerPc' = "tick"
    /\ wpc' = [r \in Roles |-> IF agents[r] THEN "select" ELSE "none"]
    /\ tickLeft' = [r \in Roles |-> IF agents[r] THEN FirstTick(r) ELSE 0]
    /\ sleepLeft' = [r \in Roles |-> IF agents[r] THEN SleepInit ELSE 0]
    /\ mainPc' = "running"
    /\ UNCHANGED << ctxVars, cfgVars, auxVars, agents, sdIdx, shutdown_signal,
                    flagVars, busVars, pumpMsg, pumpExit, processed,
                    system_context, outbox, workLeft >>

\* a select over the handles: ready when any one of them has resolved
AnyWorkerReturned ==
    \E r \in Roles : agents[r] /\ wpc[r] \in {"stopped", "panicked"}

\* join_all(agent_tasks) is ready: every handle resolved, with the task's
\* result or with the JoinError of a panic
AllWorkersReturned ==
    \A r \in Roles : agents[r] => wpc[r] \in {"stopped", "panicked"}

\* the select! of run(): the joined agent tasks, the pump task or the
\* sampler task completes; run() returns and main() ends
RunReturn ==
    /\ mainPc = "running"
    /\ \/ AllWorkersReturned
       \/ pumpPc = "done"
       \/ samplerPc = "done"
    /\ mainPc' = "run_returned"
    /\ UNCHANGED << ctxVars, cfgVars, auxVars, agents, sdIdx, shutdown_signal,
                    flagVars, busVars, pumpVars, system_context, samplerPc,
                    workerVars >>

\* ctrl-c wins the select! of main(): TradingSystem::shutdown begins by
\* setting the global flag
ShutdownBegin ==
    /\ mainPc = "running"
    /\ shutdown_signal' = TRUE
    /\ mainPc' = "shutdown"
    /\ sdIdx' = Len(StartOrder)
    /\ UNCHANGED << ctxVars, cfgVars, auxVars, agents, flagVars, busVars,
                    pumpVars, system_context, samplerPc, workerVars >>

\* the registered roles shutdown() has still to visit
Pending == {i \in 1..sdIdx : agents[StartOrder[i]]}

\* a shutdown() that visits the roles in start order
NextToShutdownForward(S) == CHOOSE i \in S : \A j \in S : i <= j

\* the role shutdown() visits next
NextToShutdown(S) == CHOOSE i \in S : \A j \in S : j <= i

\* a request that reaches every role's flag
RequestShutdownAll(flags, r) == [q \in Roles |-> TRUE]

\* BaseAgent::request_shutdown: store true in the flag of this BaseAgent
RequestShutdown(flags, r) == [flags EXCEPT ![r] = TRUE]

\* <role>.shutdown(): BaseAgent::request_shutdown sets that role's flag
ShutdownAgent ==
    /\ mainPc = "shutdown"
    /\ Pending # {}
    /\ LET i == NextToShutdown(Pending) IN
          /\ agent_shutdown' = RequestShutdown(agent_shutdown, StartOrder[i])
          /\ reqInWork' = [reqInWork EXCEPT
                ![StartOrder[i]] = (timed /\ wpc[StartOrder[i]] = "work")]
          /\ sdIdx' = i - 1
    /\ UNCHANGED << ctxVars, cfgVars, auxVars, agents, mainPc,
                    shutdown_signal, busVars, pumpVars, system_context,
                    samplerPc, workerVars >>

\* shutdown() returns Ok
ShutdownReturn ==
    /\ mainPc = "shutdown"
    /\ Pending = {}
    /\ mainPc' = "shutdown_done"
    /\ sdIdx' = 0
    /\ UNCHANGED << ctxVars, cfgVars, auxVars, agents, shutdown_signal,
                    flagVars, busVars, pumpVars, system_context, samplerPc,
                    workerVars >>

\* ------------------------------------------------------------------------
\* Role workers: <Role>Agent::run, a select! between the interval's tick
\* and a fresh shutdown-poll sleep
\* ------------------------------------------------------------------------
\* the context MarketIntelligenceAgent::new and ExecutionEngineAgent::new
\* build for their BaseAgent: a value of their own, which nothing writes
DummyContext ==
    [ market_regime       |-> "Sideways",
      total_value         |-> 100,
      daily_pnl           |-> 0,
      portfolio_heat      |-> 0,
      performance_metrics |-> Metrics(0),
      active_positions    |-> 0,
      available_capital   |-> 100,
      system_health       |-> "Healthy" ]

\* the context a role's BaseAgent holds, as get_system_context copies it
AgentContext(r) ==
    IF r \in ContextReaders THEN system_context ELSE DummyContext

\* RiskManagementAgent::calculate_portfolio_risk: portfolio heat in percent
PortfolioHeat(ctx) ==
    IF ctx.total_value > 0
       THEN Min((Abs(ctx.daily_pnl) * 100) \div ctx.total_value, 100)
       ELSE 0

\* a monitor that reports the loss as one more alert
RiskOutboundAlertsOnly(ctx) ==
    (IF PortfolioHeat(ctx) > risk_config.max_portfolio_heat
        THEN << "RiskAlert" >> ELSE << >>)
    \o
    (IF ctx.daily_pnl < -risk_config.max_daily_loss
        THEN << "RiskAlert" >> ELSE << >>)

\* RiskManagementAgent::monitor_risk: the messages one tick sends
RiskOutbound(ctx) ==
    (IF PortfolioHeat(ctx) > risk_config.max_portfolio_heat
        THEN << "RiskAlert" >> ELSE << >>)
    \o
    (IF ctx.daily_pnl < -risk_config.max_daily_loss
        THEN << "EmergencyShutdown" >> ELSE << >>)

\* MasterCoordinatorAgent::strategic_planning: one SystemCommand per
\* recommendation
CoordinatorOutbound(ctx) ==
    (IF ctx.daily_pnl < 0 THEN << "SystemCommand" >> ELSE << >>)
    \o
    (IF ctx.portfolio_heat > 80 THEN << "SystemCommand" >> ELSE << >>)
    \o
    (IF ctx.market_regime \in {"HighVolatility", "Crisis"}
        THEN << "SystemCommand" >> ELSE << >>)

\* the message types a role's unit of work sends, given its snapshot
Outbound(r, ctx) ==
    CASE r = "risk_management" -> RiskOutbound(ctx)
      [] r = "coordinator"     -> CoordinatorOutbound(ctx)
      [] OTHER                 -> << >>

\* interval.tick() is ready
TickReady(r) == tickLeft[r] <= 0

\* the sleep of this select! has elapsed.  When time is not tracked either
\* arm of the select! may be the one that completes.
PollReady(r) == timed => sleepLeft[r] = 0

Max(a, b) == IF a > b THEN a ELSE b

\* Interval with the default MissedTickBehavior::Burst: the next deadline
\* is the last one plus the period
NextDeadline(r) ==
    IF timed THEN Max(tickLeft[r] + period[r], 0 - MaxLag) ELSE 0

\* how long a unit of work runs
Durations == IF timed THEN 0..MaxWork ELSE {0}

\* a snapshot that moves the metrics out and leaves the default behind
ContextAfterTake(ctx) == [ctx EXCEPT !.performance_metrics = Metrics(0)]

\* get_system_context: the context behind the lock once the read guard is
\* dropped; the unit of work goes on with the clone
ContextAfterRead(ctx) == ctx

\* the tick arm of the select!: the unit of work begins with a snapshot of
\* the context (a unit that would send more than the model's bound on
\* messages is not explored)
TickFires(r) ==
    /\ wpc[r] = "select"
    /\ TickReady(r)
    /\ nsent + Len(Outbound(r, AgentContext(r))) <= MaxSends
    /\ wpc' = [wpc EXCEPT ![r] = "work"]
    /\ outbox' = [outbox EXCEPT ![r] = Outbound(r, AgentContext(r))]
    /\ system_context' = IF r \in ContextReaders
                            THEN ContextAfterRead(system_context)
                            ELSE system_context
    /\ tickLeft' = [tickLeft EXCEPT ![r] = NextDeadline(r)]
    /\ \E d \in Durations : workLeft' = [workLeft EXCEPT ![r] = d]
    /\ UNCHANGED << ctxVars, cfgVars, auxVars, mainVars, shutdown_signal,
                    flagVars, busVars, pumpVars, samplerPc, sleepLeft >>

\* BaseAgent::send_message inside the unit of work
WorkSend(r) ==
    /\ wpc[r] = "work"
    /\ outbox[r] # << >>
    /\ Enqueue(Msg(r, Head(outbox[r]), Json))
    /\ outbox' = [outbox EXCEPT ![r] = Tail(outbox[r])]
    /\ UNCHANGED << ctxVars, cfgVars, auxVars, mainVars, shutdown_signal,
                    flagVars, pumpVars, system_context, samplerPc, wpc,
                    timerVars >>

\* the unit of work returns; the loop enters select! again with a new sleep
WorkDone(r) ==
    /\ wpc[r] = "work"
    /\ outbox[r] = << >>
    /\ workLeft[r] = 0
    /\ wpc' = [wpc EXCEPT ![r] = "select"]
    /\ sleepLeft' = [sleepLeft EXCEPT ![r] = SleepInit]
    /\ UNCHANGED << ctxVars, cfgVars, auxVars, mainVars, shutdown_signal,
                    flagVars, busVars, pumpVars, system_context, samplerPc,
                    outbox, tickLeft, workLeft >>

\* BaseAgent::should_shutdown
ShouldShutdown(r) == agent_shutdown[r]

\* a poll that takes the flag, leaving it clear
FlagAfterPollTaken(flag) == FALSE

\* should_shutdown reads the flag under the read guard and leaves it
FlagAfterPoll(flag) == flag

\* the sleep arm of the select!, flag set: break, run() returns
PollStop(r) ==
    /\ wpc[r] = "select"
    /\ PollReady(r)
    /\ ShouldShutdown(r)
    /\ agent_shutdown' = [agent_shutdown EXCEPT ![r] = FlagAfterPoll(@)]
    /\ wpc' = [wpc EXCEPT ![r] = "stopped"]
    /\ tickLeft' = [tickLeft EXCEPT ![r] = 0]
    /\ reqInWork' = [reqInWork EXCEPT ![r] = FALSE]
    /\ UNCHANGED << ctxVars, cfgVars, auxVars, mainVars, shutdown_signal,
                    busVars, pumpVars, system_context,
                    samplerPc, outbox, sleepLeft, workLeft >>

\* the sleep arm of the select!, flag clear: loop with a new sleep
PollContinue(r) ==
    /\ wpc[r] = "select"
    /\ PollReady(r)
    /\ ~ShouldShutdown(r)
    /\ sleepLeft' = [sleepLeft EXCEPT ![r] = SleepInit]
    /\ UNCHANGED << ctxVars, cfgVars, auxVars, mainVars, shutdown_signal,
                    flagVars, busVars, pumpVars, system_context, samplerPc,
                    wpc, outbox, tickLeft, workLeft >>

\* a timer whose event is due: time cannot pass before the event is served
Due(r) ==
    \/ wpc[r] = "select" /\ (tickLeft[r] <= 0 \/ sleepLeft[r] = 0)
    \/ wpc[r] = "work" /\ workLeft[r] = 0

\* one time unit passes for every role
Advance ==
    /\ timed
    /\ \A r \in Roles : ~Due(r)
    /\ \E r \in Roles : wpc[r] \in {"select", "work"}
    /\ tickLeft' = [r \in Roles |->
          IF wpc[r] \in {"select", "work"}
             THEN Max(tickLeft[r] - 1, 0 - MaxLag) ELSE tickLeft[r]]
    /\ sleepLeft' = [r \in Roles |->
          IF wpc[r] = "select" THEN sleepLeft[r] - 1 ELSE sleepLeft[r]]
    /\ workLeft' = [r \in Roles |->
          IF wpc[r] = "work" THEN workLeft[r] - 1 ELSE workLeft[r]]
    /\ UNCHANGED << ctxVars, cfgVars, auxVars, mainVars, shutdown_signal,
                    flagVars, busVars, pumpVars, system_context, samplerPc,
                    wpc, outbox >>

\* ------------------------------------------------------------------------
\* The orchestrator with an outside producer on the bus; time not tracked
\* ------------------------------------------------------------------------
InitState ==
    /\ agents = [r \in Roles |-> FALSE]
    /\ mainPc = "new"
    /\ sdIdx = 0
    /\ shutdown_signal = FALSE
    /\ agent_shutdown = [r \in Roles |-> FALSE]
    /\ reqInWork = [r \in Roles |-> FALSE]
    /\ queue = << >>
    /\ nsent = 0
    /\ pumpPc = "none"
    /\ pumpMsg = NoMsg
    /\ pumpExit = "none"
    /\ processed = << >>
    /\ system_context = InitialContext
    /\ samplerPc = "none"
    /\ wpc = [r \in Roles |-> "none"]
    /\ outbox = [r \in Roles |-> << >>]
    /\ tickLeft = [r \in Roles |-> 0]
    /\ sleepLeft = [r \in Roles |-> 0]
    /\ workLeft = [r \in Roles |-> 0]
    /\ ctx_lock = Unlocked
    /\ committed = {InitialContext}
    /\ rpc = [r \in Roles |-> "idle"]
    /\ snap = [r \in Roles |-> InitialContext]
    /\ seen = [r \in Roles |-> InitialContext]
    /\ mpc = [m \in Mutators |-> "idle"]
    /\ mval = [m \in Mutators |-> 0]
    /\ failed = [r \in Roles |-> FALSE]
    /\ draft = NoDraft
    /\ classified = << >>
    /\ ltask = [t \in LockTasks |-> IdleTask]
    /\ BroadcasterNew

InitWith(configs) ==
    /\ max_history = SystemHistory
    /\ enabled \in configs
    /\ risk_config \in RiskConfigs
    /\ timed = FALSE
    /\ period = [r \in Roles |-> 0]
    /\ InitState

Init == InitWith(EnabledConfigs)

\* the steps of the orchestrator's own tasks
SystemNext ==
    \/ Start
    \/ Run
    \/ RunReturn
    \/ ShutdownBegin
    \/ ShutdownAgent
    \/ ShutdownReturn
    \/ PumpCheck
    \/ PumpRecv
    \/ PumpEmergency
    \/ PumpRoute
    \/ SamplerStop
    \/ SamplerRead
    \/ \E r \in Roles : TickFires(r)
    \/ \E r \in Roles : WorkSend(r)
    \/ \E r \in Roles : WorkDone(r)
    \/ \E r \in Roles : PollStop(r)
    \/ \E r \in Roles : PollContinue(r)

Next == SystemNext \/ Broadcast

Spec == Init /\ [][Next]_vars

\* ------------------------------------------------------------------------
\* The orchestrator with all five roles enabled and no outside producer
\* ------------------------------------------------------------------------
LifeInit == InitWith({Roles})

LifeSpec == LifeInit /\ [][SystemNext]_vars

\* ------------------------------------------------------------------------
\* One role worker with its timers tracked.  The time unit is 5 ms: the
\* 10 ms poll sleep is 2 units, the configured interval 1 or 3.
\* ------------------------------------------------------------------------
\* the roles whose interval is configured in milliseconds
TimedRoles == {"intelligence", "risk_management"}

TimedInit ==
    /\ max_history = SystemHistory
    /\ \E r \in TimedRoles : enabled = {r}
    /\ risk_config \in RiskConfigs
    /\ timed = TRUE
    /\ \E p \in Periods : period = [r \in Roles |-> IF r \in enabled THEN p ELSE 0]
    /\ InitState

TimedNext == SystemNext \/ Advance

TimedSpec == TimedInit /\ [][TimedNext]_vars

\* what the scheduler guarantees: a task that can take a step takes it.
\* Requests from outside (ctrl-c, a producer's decision to send) are not
\* forced.
TaskFairness ==
    /\ WF_vars(Run)
    /\ WF_vars(RunReturn)
    /\ WF_vars(ShutdownAgent)
    /\ WF_vars(ShutdownReturn)
    /\ WF_vars(PumpCheck)
    /\ WF_vars(PumpRecv)
    /\ WF_vars(PumpEmergency)
    /\ WF_vars(PumpRoute)
    /\ WF_vars(SamplerStop)
    /\ \A r \in Roles :
          /\ WF_vars(TickFires(r))
          /\ WF_vars(WorkSend(r))
          /\ WF_vars(WorkDone(r))

\* time not tracked: a poll that stays possible is taken
Fairness ==
    /\ TaskFairness
    /\ \A r \in Roles : WF_vars(PollStop(r))

\* time tracked: time keeps passing, and select!, which picks at random
\* among the arms that are ready, does not avoid a poll that is ready
\* again and again
TimedFairness ==
    /\ TaskFairness
    /\ WF_vars(Advance)
    /\ \A r \in Roles : SF_vars(PollStop(r)) /\ SF_vars(PollContinue(r))

TimedFairSpec == TimedSpec /\ TimedFairness

FairSpec == Spec /\ Fairness

LifeFairSpec == LifeSpec /\ Fairness

\* ------------------------------------------------------------------------
\* The shared context at the grain of its lock: the router's write, the
\* workers' get_system_context and concurrent incrementing mutations, each
\* split into the steps between which other tasks can run
\* ------------------------------------------------------------------------
Updates(m) == m.type = "PerformanceUpdate" /\ Decodes(m.payload)

\* route_message, arms that leave the context alone
RouteOther ==
    /\ ~Updates(pumpMsg)
    /\ PumpRoute

\* route_message: system_context.write().await returns the guard
RouteAcquire ==
    /\ pumpPc = "match"
    /\ ~IsEmergency(pumpMsg)
    /\ Updates(pumpMsg)
    /\ CanWrite(ctx_lock)
    /\ ctx_lock' = [ctx_lock EXCEPT !.writer = TRUE]
    /\ pumpPc' = "route_locked"
    /\ UNCHANGED << committed, readVars, mutVars, cfgVars, auxVars, mainVars,
                    shutdown_signal, flagVars, busVars, pumpMsg, pumpExit,
                    processed, system_context, samplerPc, workerVars >>

\* context.performance_metrics = metrics: the first fields are stored
RouteWrite1 ==
    /\ pumpPc = "route_locked"
    /\ system_context' =
          [system_context EXCEPT !.performance_metrics.total_trades =
                                     pumpMsg.payload.total_trades]
    /\ pumpPc' = "route_writing"
    /\ UNCHANGED << lockVars, readVars, mutVars, cfgVars, auxVars, mainVars,
                    shutdown_signal, flagVars, busVars, pumpMsg, pumpExit,
                    processed, samplerPc, workerVars >>

\* the remaining fields are stored and the guard is dropped
RouteWrite2 ==
    /\ pumpPc = "route_writing"
    /\ system_context' =
          [system_context EXCEPT !.performance_metrics.winning_trades =
                                     pumpMsg.payload.winning_trades]
    /\ ctx_lock' = [ctx_lock EXCEPT !.writer = FALSE]
    /\ committed' = committed \cup {system_context'}
    /\ pumpPc' = "check"
    /\ pumpMsg' = NoMsg
    /\ UNCHANGED << readVars, mutVars, cfgVars, auxVars, mainVars,
                    shutdown_signal, flagVars, busVars, pumpExit, processed,
                    samplerPc, workerVars >>

\* a running worker calls get_system_context inside its unit of work;
\* the worker's own loop is not followed here
Reading(r) == r \in ContextReaders /\ agents[r] /\ wpc[r] = "select"

\* get_system_context: self.system_context.read().await returns the guard
ReadAcquire(r) ==
    /\ Reading(r)
    /\ rpc[r] = "idle"
    /\ CanRead(ctx_lock)
    /\ ctx_lock' = [ctx_lock EXCEPT !.readers = @ + 1]
    /\ seen' = [seen EXCEPT ![r] = system_context]
    /\ rpc' = [rpc EXCEPT ![r] = "locked"]
    /\ UNCHANGED << committed, snap, mutVars, cfgVars, auxVars, mainVars,
                    shutdown_signal, flagVars, busVars, pumpVars,
                    system_context, samplerPc, workerVars >>

\* context.clone(): the performance metrics are copied
ReadCopy1(r) ==
    /\ rpc[r] = "locked"
    /\ snap' = [snap EXCEPT ![r].performance_metrics =
                                 system_context.performance_metrics]
    /\ rpc' = [rpc EXCEPT ![r] = "copying"]
    /\ UNCHANGED << lockVars, seen, mutVars, cfgVars, auxVars, mainVars,
                    shutdown_signal, flagVars, busVars, pumpVars,
                    system_context, samplerPc, workerVars >>

\* the other fields are copied, the guard is dropped and the copy returned
ReadCopy2(r) ==
    /\ rpc[r] = "copying"
    /\ snap' = [snap EXCEPT ![r] =
                   [system_context EXCEPT !.performance_metrics =
                                              snap[r].performance_metrics]]
    /\ ctx_lock' = [ctx_lock EXCEPT !.readers = @ - 1]
    /\ rpc' = [rpc EXCEPT ![r] = "done"]
    /\ UNCHANGED << committed, seen, mutVars, cfgVars, auxVars, mainVars,
                    shutdown_signal, flagVars, busVars, pumpVars,
                    system_context, samplerPc, workerVars >>

\* an incrementing mutation takes the write guard
MutAcquire(m) ==
    /\ mainPc = "running"
    /\ mpc[m] = "idle"
    /\ CanWrite(ctx_lock)
    /\ ctx_lock' = [ctx_lock EXCEPT !.writer = TRUE]
    /\ mpc' = [mpc EXCEPT ![m] = "locked"]
    /\ UNCHANGED << committed, readVars, mval, cfgVars, auxVars, mainVars,
                    shutdown_signal, flagVars, busVars, pumpVars,
                    system_context, samplerPc, workerVars >>

\* it reads the counter
MutRead(m) ==
    /\ mpc[m] = "locked"
    /\ mval' = [mval EXCEPT ![m] = system_context.active_positions]
    /\ mpc' = [mpc EXCEPT ![m] = "read"]
    /\ UNCHANGED << lockVars, readVars, cfgVars, auxVars, mainVars,
                    shutdown_signal, flagVars, busVars, pumpVars,
                    system_context, samplerPc, workerVars >>

\* it stores the counter plus one and drops the guard
MutWrite(m) ==
    /\ mpc[m] = "read"
    /\ system_context' =
          [system_context EXCEPT !.active_positions = mval[m] + 1]
    /\ ctx_lock' = [ctx_lock EXCEPT !.writer = FALSE]
    /\ committed' = committed \cup {system_context'}
    /\ mpc' = [mpc EXCEPT ![m] = "done"]
    /\ UNCHANGED << readVars, mval, cfgVars, auxVars, mainVars,
                    shutdown_signal, flagVars, busVars, pumpVars, samplerPc,
                    workerVars >>

\* the readers enabled together with the pump, an outside producer and the
\* incrementing mutations
CtxInit ==
    /\ max_history = SystemHistory
    /\ enabled = {"risk_management", "learning"}
    /\ risk_config = [max_daily_loss |-> 2, max_portfolio_heat |-> 80]
    /\ timed = FALSE
    /\ period = [r \in Roles |-> 0]
    /\ InitState

CtxNext ==
    \/ Start
    \/ Run
    \/ Broadcast
    \/ PumpCheck
    \/ PumpRecv
    \/ PumpEmergency
    \/ RouteOther
    \/ RouteAcquire
    \/ RouteWrite1
    \/ RouteWrite2
    \/ \E r \in Roles : ReadAcquire(r)
    \/ \E r \in Roles : ReadCopy1(r)
    \/ \E r \in Roles : ReadCopy2(r)
    \/ \E m \in Mutators : MutAcquire(m)
    \/ \E m \in Mutators : MutRead(m)
    \/ \E m \in Mutators : MutWrite(m)

CtxSpec == CtxInit /\ [][CtxNext]_vars

\* ------------------------------------------------------------------------
\* Faults in a unit of work: an Err returned to the loop, and a panic
\* ------------------------------------------------------------------------
\* the roles whose unit of work returns a Result; the execution engine's
\* tick only logs
Fallible == Roles \ {"execution"}

\* a loop that hands the error on with `?`: run() returns
AfterTickErrorPropagated(r) == "stopped"

\* if let Err(e) = <unit of work> { error!(..) }: the loop goes on
AfterTickError(r) == "select"

\* the unit of work returns Err; what it had still to send is not sent
WorkFail(r) ==
    /\ wpc[r] = "work"
    /\ r \in Fallible
    /\ wpc' = [wpc EXCEPT ![r] = AfterTickError(r)]
    /\ outbox' = [outbox EXCEPT ![r] = << >>]
    /\ workLeft' = [workLeft EXCEPT ![r] = 0]
    /\ sleepLeft' = [sleepLeft EXCEPT ![r] = SleepInit]
    /\ failed' = [failed EXCEPT ![r] = TRUE]
    /\ UNCHANGED << ctxVars, cfgVars, thoughtVars, pureVars, mainVars,
                    shutdown_signal, flagVars, busVars, pumpVars,
                    system_context, samplerPc, tickLeft >>

\* the unit of work panics: the spawned task ends and its JoinHandle
\* resolves with a JoinError
WorkPanic(r) ==
    /\ wpc[r] = "work"
    /\ wpc' = [wpc EXCEPT ![r] = "panicked"]
    /\ outbox' = [outbox EXCEPT ![r] = << >>]
    /\ workLeft' = [workLeft EXCEPT ![r] = 0]
    /\ UNCHANGED << ctxVars, cfgVars, auxVars, mainVars, shutdown_signal,
                    flagVars, busVars, pumpVars, system_context, samplerPc,
                    tickLeft, sleepLeft >>

\* the sets of enabled roles explored with faults
FaultConfigs ==
    { {"risk_management", "learning"},
      {"intelligence", "execution"},
      {"coordinator"} }

FaultInit == InitWith(FaultConfigs)

FaultNext ==
    \/ SystemNext
    \/ \E r \in Roles : WorkFail(r)
    \/ \E r \in Roles : WorkPanic(r)

FaultSpec == FaultInit /\ [][FaultNext]_vars

\* ------------------------------------------------------------------------
\* The thought stream on its own: publishers and subscribers on clones of
\* one broadcaster, and the history queries
\* ------------------------------------------------------------------------
BroadcasterInit(capacities) ==
    /\ enabled = {}
    /\ risk_config = [max_daily_loss |-> 2, max_portfolio_heat |-> 80]
    /\ timed = FALSE
    /\ period = [r \in Roles |-> 0]
    /\ max_history \in capacities
    /\ InitState

\* publishers and subscribers
ThoughtInit == BroadcasterInit(StreamCapacities)

\* publishers and history queries
HistoryInit == BroadcasterInit(Capacities)

PublishNext(publishers) ==
    \/ \E p \in publishers : PubBegin(p)
    \/ \E p \in publishers : PubPush(p)
    \/ \E p \in publishers : PubTrim(p)
    \/ \E p \in publishers : PubSend(p)

\* one publisher racing with the subscribers
ThoughtNext ==
    \/ PublishNext({"p1"})
    \/ \E s \in Subscribers : Subscribe(s)
    \/ \E s \in Subscribers : Recv(s)
    \/ \E s \in Subscribers : Unsubscribe(s)

ThoughtSpec == ThoughtInit /\ [][ThoughtNext]_vars

\* both publishers racing with each other and with the queries
HistoryNext == PublishNext(Publishers) \/ Query

HistorySpec == HistoryInit /\ [][HistoryNext]_vars

\* both publishers racing with each other and with one subscriber; the
\* history is large enough to keep every record
OrderInit == BroadcasterInit({SystemHistory})

OrderNext ==
    \/ PublishNext(Publishers)
    \/ Subscribe("s1")
    \/ Recv("s1")

OrderSpec == OrderInit /\ [][OrderNext]_vars

\* ------------------------------------------------------------------------
\* AIThought: the constructor and its builder methods
\* ------------------------------------------------------------------------
\* f64 confidences in hundredths, around every threshold and outside
\* [0, 1], and NaN
ConfidenceGrid ==
    {-10, 0, 10, 19, 20, 21, 39, 40, 41, 59, 60, 61, 75, 79, 80, 81, 100, 110}

Confidences ==
    {[nan |-> FALSE, pct |-> p] : p \in ConfidenceGrid}
       \cup {[nan |-> TRUE, pct |-> 0]}

\* c < t on f64: false when c is NaN
Lt(c, t) == ~c.nan /\ c.pct < t

\* thresholds that belong to the lower bucket
ConfidenceLevelFromInclusive(c) ==
    IF Lt(c, 21) THEN "VeryLow"
    ELSE IF Lt(c, 41) THEN "Low"
    ELSE IF Lt(c, 61) THEN "Medium"
    ELSE IF Lt(c, 81) THEN "High"
    ELSE "VeryHigh"

\* impl From<f64> for ConfidenceLevel: the first guard that holds
ConfidenceLevelFrom(c) ==
    IF Lt(c, 20) THEN "VeryLow"
    ELSE IF Lt(c, 40) THEN "Low"
    ELSE IF Lt(c, 60) THEN "Medium"
    ELSE IF Lt(c, 80) THEN "High"
    ELSE "VeryHigh"

\* AIThought::new (id, timestamp, agent, thought_type and message left out)
ThoughtNew ==
    /\ draft = NoDraft
    /\ \E c \in Confidences :
          draft' = [ confidence       |-> c,
                     confidence_level |-> ConfidenceLevelFrom(c),
                     reasoning        |-> "empty",
                     supporting_data  |-> "empty",
                     symbols          |-> "empty",
                     tags             |-> "empty",
                     impact_level     |-> "Medium",
                     educational      |-> FALSE,
                     planned_actions  |-> "empty" ]
    /\ UNCHANGED << thoughtVars, failed, classified, ltask, systemVars >>

Builders ==
    { "with_reasoning", "with_data", "with_symbols", "with_tags",
      "with_impact", "educational", "with_actions" }

\* the record a builder method returns
Built(t, b) ==
    CASE b = "with_reasoning" -> [t EXCEPT !.reasoning = "given"]
      [] b = "with_data"      -> [t EXCEPT !.supporting_data = "given"]
      [] b = "with_symbols"   -> [t EXCEPT !.symbols = "given"]
      [] b = "with_tags"      -> [t EXCEPT !.tags = "given"]
      [] b = "with_impact"    -> [t EXCEPT !.impact_level = "High"]
      [] b = "educational"    -> [t EXCEPT !.educational = TRUE]
      [] b = "with_actions"   -> [t EXCEPT !.planned_actions = "given"]

\* one builder method applied to the record under construction
Builder(b) ==
    /\ draft # NoDraft
    /\ draft' = Built(draft, b)
    /\ UNCHANGED << thoughtVars, failed, classified, ltask, systemVars >>

RecordNext == ThoughtNew \/ \E b \in Builders : Builder(b)

RecordSpec == BroadcasterInit({SystemHistory}) /\ [][RecordNext]_vars

\* ------------------------------------------------------------------------
\* TradingError: is_recoverable and requires_shutdown
\* ------------------------------------------------------------------------
\* how many errors are classified in one behaviour
MaxErrors == 2

\* the variants of TradingError (their fields play no part in the matches)
TradingErrors ==
    { "Config", "Api", "Serialization", "Io", "WebSocket", "RiskManagement",
      "Execution", "MarketData", "AgentCommunication", "Strategy",
      "Shutdown", "CircuitBreaker", "EmergencyStop" }

\* an is_recoverable without the arm of the circuit breaker
IsRecoverableButBreaker(err) == err \notin {"Shutdown", "EmergencyStop"}

\* TradingError::is_recoverable
IsRecoverable(err) ==
    IF err \in {"Shutdown", "EmergencyStop"} THEN FALSE
    ELSE IF err = "CircuitBreaker" THEN FALSE
    ELSE TRUE

\* TradingError::requires_shutdown
RequiresShutdown(err) ==
    IF err \in {"Shutdown", "EmergencyStop"} THEN TRUE
    ELSE IF err = "CircuitBreaker" THEN TRUE
    ELSE FALSE

\* an error handler asks both questions of one error
Classify ==
    /\ Len(classified) < MaxErrors
    /\ \E err \in TradingErrors :
          classified' = Append(classified,
                               [ error             |-> err,
                                 is_recoverable    |-> IsRecoverable(err),
                                 requires_shutdown |-> RequiresShutdown(err) ])
    /\ UNCHANGED << thoughtVars, failed, draft, ltask, systemVars >>

ErrorSpec == BroadcasterInit({SystemHistory}) /\ [][Classify]_vars

\* ------------------------------------------------------------------------
\* The locks: which guards a task holds while it waits
\* ------------------------------------------------------------------------
\* lock().await on lock l in mode m; the guard is dropped; recv().await
Acquire(l, m) == [op |-> "acquire", lock |-> l, mode |-> m]
Release(l, m) == [op |-> "release", lock |-> l, mode |-> m]
AwaitMessage == [op |-> "recv", lock |-> "none", mode |-> "none"]

\* process_messages, one iteration: the flag is read in a block of its
\* own; the message is awaited under the receiver's guard; then the
\* iteration ends (flag set, or a message no arm locks for), or stores the
\* flag (EmergencyShutdown), or writes the context (PerformanceUpdate)
PumpPaths ==
    LET check == << Acquire("global", "read"), Release("global", "read") >>
        recv  == << Acquire("receiver", "write"), AwaitMessage,
                    Release("receiver", "write") >>
    IN  { check,
          check \o recv,
          check \o recv \o << Acquire("global", "write"),
                               Release("global", "write") >>,
          check \o recv \o << Acquire("context", "write"),
                               Release("context", "write") >> }

\* a sampler that reads the context with the flag's guard still alive
SamplerPathsNested ==
    { << Acquire("global", "read"), Acquire("context", "read"),
         Release("context", "read"), Release("global", "read") >> }

\* monitor_system_health, one tick: the flag in a block of its own, then
\* (flag clear) the context in another
SamplerPaths ==
    { << Acquire("global", "read"), Release("global", "read") >>,
      << Acquire("global", "read"), Release("global", "read"),
         Acquire("context", "read"), Release("context", "read") >> }

\* a role worker: get_system_context in a unit of work, should_shutdown
\* in a poll
WorkerPaths ==
    { << Acquire("context", "read"), Release("context", "read") >>,
      << Acquire("role", "read"), Release("role", "read") >> }

\* shutdown(): the global flag in a block of its own, then
\* request_shutdown for a role
ShutdownPaths ==
    { << Acquire("global", "write"), Release("global", "write"),
         Acquire("role", "write"), Release("role", "write") >> }

\* broadcast_thought: the history in a block of its own, send after it
PublisherPaths ==
    { << Acquire("history", "write"), Release("history", "write") >> }

\* get_recent_thoughts, get_thoughts_by_agent, get_educational_thoughts
QueryPaths ==
    { << Acquire("history", "read"), Release("history", "read") >> }

Paths(t) ==
    CASE t = "pump"      -> PumpPaths
      [] t = "sampler"   -> SamplerPaths
      [] t = "worker"    -> WorkerPaths
      [] t = "shutdown"  -> ShutdownPaths
      [] t = "publisher" -> PublisherPaths
      [] t = "query"     -> QueryPaths

\* the task has a step of its walk still to take
Walking(t) == ltask[t].at <= Len(ltask[t].path)

\* the guards alive on lock l
Guards(l) == {g \in UNION {ltask[t].held : t \in LockTasks} : g.lock = l}

\* tokio RwLock: write needs no guard alive, read needs no write guard
Grantable(l, m) ==
    IF m = "write" THEN Guards(l) = {}
                   ELSE \A g \in Guards(l) : g.mode = "read"

\* the task enters one of its walks
LockBegin(t) ==
    /\ ~Walking(t)
    /\ \E path \in Paths(t) :
          ltask' = [ltask EXCEPT ![t] = [path |-> path, at |-> 1,
                                          held |-> {}]]
    /\ UNCHANGED << thoughtVars, failed, draft, classified, systemVars >>

\* the task takes the next step of its walk
LockStep(t) ==
    /\ Walking(t)
    /\ LET step  == ltask[t].path[ltask[t].at]
           guard == [lock |-> step.lock, mode |-> step.mode]
       IN  /\ step.op = "acquire" => Grantable(step.lock, step.mode)
           /\ ltask' = [ltask EXCEPT
                 ![t].at = @ + 1,
                 ![t].held = CASE step.op = "acquire" -> @ \cup {guard}
                               [] step.op = "release" -> @ \ {guard}
                               [] OTHER               -> @]
    /\ UNCHANGED << thoughtVars, failed, draft, classified, systemVars >>

LockNext == \E t \in LockTasks : LockBegin(t) \/ LockStep(t)

LockSpec == BroadcasterInit({SystemHistory}) /\ [][LockNext]_vars

\* ------------------------------------------------------------------------
\* Message order and emergency shutdown
\* ------------------------------------------------------------------------
\* C1: the pump dequeues the messages in exactly the order in which they
\* were enqueued (ids number the messages in enqueue order), whoever sent
\* them, and an idle pump facing an empty queue has dequeued them all.
C1_PumpFollowsSendOrder ==
    /\ \A i \in 1..Len(processed) : processed[i].id = i
    /\ (pumpPc = "recv" /\ queue = << >>) => Len(processed) = nsent

\* two messages of different producers were queued together and drained
C1_Witness ==
    /\ Len(processed) = 2
    /\ processed[1].from # processed[2].from
    /\ pumpPc = "recv"
    /\ queue = << >>

\* C2: once the pump has dequeued an emergency-shutdown message it routes
\* nothing more: the message stays the last one dequeued, and when its arm
\* has run the global flag is set and the loop has ended.
C2_EmergencyStopsPump ==
    /\ \A i \in 1..Len(processed) :
          processed[i].type = "EmergencyShutdown" =>
             /\ i = Len(processed)
             /\ pumpPc \in {"match", "done"}
             /\ pumpPc = "done" => shutdown_signal /\ pumpExit = "emergency"
    /\ pumpExit = "emergency" => shutdown_signal /\ pumpPc = "done"

\* the loop ended on an emergency message while a later message is queued
C2_Witness ==
    /\ pumpExit = "emergency"
    /\ queue # << >>
    /\ mainPc # "shutdown"

\* C3: a global flag set while the pump waits on an empty bus is observed
\* by the pump, which ends its loop, unless a message arrives.
C3_IdlePumpObservesFlag ==
    (shutdown_signal /\ pumpPc = "recv" /\ queue = << >>)
        ~> (pumpPc = "done" \/ queue # << >>)

\* ------------------------------------------------------------------------
\* Cooperative shutdown of a worker
\* ------------------------------------------------------------------------
\* C4: once a role's shutdown flag is set, its worker loop ends, whatever
\* the interval period and however long the units of work run.
C4_FlaggedWorkerStops ==
    \A r \in Roles :
       (agent_shutdown[r] /\ wpc[r] \in {"select", "work"}) ~> (wpc[r] = "stopped")

\* C5: a worker whose flag was set during a unit of work does not stop
\* before the unit returns, and once the unit has returned it begins no
\* other unit: its next step out of the select! is the poll that stops it.
C5_StopsAtFirstPollAfterUnit ==
    [][\A r \in Roles :
          reqInWork[r] =>
             /\ wpc[r] = "work" => wpc'[r] # "stopped"
             /\ wpc[r] = "select" => wpc'[r] # "work"]_vars

\* ------------------------------------------------------------------------
\* The shutdown protocol across the roles
\* ------------------------------------------------------------------------
\* C6: after the pump has ended its loop on an emergency-shutdown message,
\* every role worker that is running ends its loop.
C6_EmergencyStopsWorkers ==
    (pumpExit = "emergency") ~> (\A r \in Roles : agents[r] => wpc[r] = "stopped")

\* C7: when shutdown() has returned, every started worker has returned.
C7_ShutdownJoinsWorkers ==
    mainPc = "shutdown_done" => \A r \in Roles : agents[r] => wpc[r] = "stopped"

\* C8: no worker has stopped while a worker started after it still runs.
C8_ReverseStopOrder ==
    \A i, j \in 1..Len(StartOrder) :
       (i < j /\ agents[StartOrder[i]] /\ agents[StartOrder[j]]
          /\ wpc[StartOrder[i]] = "stopped")
       => wpc[StartOrder[j]] = "stopped"

\* ------------------------------------------------------------------------
\* The shared context under concurrent access
\* ------------------------------------------------------------------------
\* C9: concurrent exclusive mutations that each increment the same counter
\* never lose an update: the counter has grown by exactly the number of
\* mutations that completed (by N once all N completed), whatever the
\* interleaving with the router's mutation and with snapshot reads.
C9_NoLostIncrement ==
    system_context.active_positions =
       InitialContext.active_positions
          + Cardinality({m \in Mutators : mpc[m] = "done"})

\* all mutations completed, the router replaced the metrics in between and
\* a snapshot was taken between two of the increments
C9_Witness ==
    /\ \A m \in Mutators : mpc[m] = "done"
    /\ system_context.performance_metrics = Metrics(1)
    /\ \E r \in Roles :
          /\ rpc[r] = "done"
          /\ snap[r].active_positions = 1
          /\ snap[r].performance_metrics = Metrics(0)

\* C10: a snapshot is a complete, independent copy: it is a context that
\* some mutation left behind in full (or the initial one), namely the one
\* in place when the snapshot was taken, and later mutations of the shared
\* context leave the returned copy as it was.
C10_SnapshotIsComplete ==
    \A r \in Roles :
       rpc[r] = "done" => (snap[r] \in committed /\ snap[r] = seen[r])

\* a snapshot taken after one mutation and before a later one: the copy
\* differs from the initial context and from the present one
C10_Witness ==
    \E r \in Roles :
       /\ rpc[r] = "done"
       /\ snap[r] # InitialContext
       /\ snap[r] # system_context
       /\ ctx_lock = Unlocked

\* ------------------------------------------------------------------------
\* The thought stream: history
\* ------------------------------------------------------------------------
\* C11: whenever no publish is between its push and its trim (so after
\* every completed publish), under every interleaving of the publishers,
\* the history holds at most max_history records.
C11_HistoryBounded ==
    (\A p \in Publishers : ppc[p] # "pushed")
       => Len(thought_history) <= max_history

\* more records pushed than the capacity, by two publishers at once
C11_Witness ==
    /\ max_history = 2
    /\ Len(pushlog) = 3
    /\ Len(thought_history) = 2
    /\ \A p \in Publishers : ppc[p] = "send"

LastPushed(n) ==
    {pushlog[i] : i \in (Len(pushlog) - n + 1)..Len(pushlog)}

Range(seq) == {seq[i] : i \in 1..Len(seq)}

\* C12: once more than max_history records were published, the
\* most-recent query with limit max_history returns exactly the max_history
\* most recently published records and none of the older ones.
C12_RecentKeepsNewest ==
    [][(qres' # qres /\ qres'.kind = "recent" /\ qres'.limit = max_history
          /\ Len(pushlog) > max_history)
        => (Range(qres'.out) = LastPushed(max_history)
              /\ Len(qres'.out) = max_history)]_vars

\* the query answered after three publishes into a history of two
C12_Witness ==
    /\ max_history = 2
    /\ Len(pushlog) = 3
    /\ qres.kind = "recent"
    /\ qres.limit = 2
    /\ Ids(qres.out) = {2, 3}

\* what a query is to return: the newest min(limit, matches) matching
\* records of the history, newest first
Matches(t, q) ==
    CASE q.kind = "by_agent" -> t.agent = q.agent
      [] q.kind = "educational" -> t.educational
      [] OTHER -> TRUE

NewestFirst(history, q) ==
    Take(Reverse(SelectSeq(history, LAMBDA t : Matches(t, q))), q.limit)

\* C13: each of the three history queries returns the min(limit, matches)
\* newest matching records of the history, ordered newest first.
C13_QueriesNewestFirst ==
    [][(qres' # qres) => qres'.out = NewestFirst(thought_history, qres')]_vars

\* ------------------------------------------------------------------------
\* The thought stream: subscribers
\* ------------------------------------------------------------------------
\* C14: a subscription receives none of the records whose publish had
\* completed when it was created, and those of them that are among the
\* max_history newest records pushed are returned by the most-recent query.
C14_NoReplayOnSubscribe ==
    \A s \in Subscribers :
       /\ Ids(stream[s]) \cap doneAtSub[s] = {}
       /\ ~thought_lock.writer =>
             \A t \in LastPushed(Min(max_history, Len(pushlog))) :
                t.id \in doneAtSub[s] =>
                   t \in Range(GetRecentThoughts(thought_history, max_history))

\* a subscription created after two publishes, one of them delivered to
\* an earlier subscriber, that has received the third record
C14_Witness ==
    \E s \in Subscribers :
       /\ doneAtSub[s] = {1, 2}
       /\ rx[s].start > 1
       /\ Ids(stream[s]) = {3}

\* C15: a record that is in the history when subscribe() returns is never
\* afterwards delivered on that subscription's stream.
C15_NoDuplicateAfterHistory ==
    \A s \in Subscribers : Ids(stream[s]) \cap histAtSub[s] = {}

\* C16: every record stored in the channel while a subscriber is live is
\* in the history log and reaches that subscriber unchanged: it has been
\* received, or it is still retained for the subscriber to receive.
C16_LiveSubscribersReceive ==
    \A s \in Subscribers :
       rx[s].state = "live" =>
          \A i \in rx[s].start..Len(channel) :
             /\ channel[i] \in Range(pushlog)
             /\ IF i < rx[s].next
                   THEN channel[i] \in Range(stream[s])
                   ELSE i >= OldestRetained

\* C17: a publish whose send found no live subscriber reports no error to
\* its caller, and its record was appended to the history.
C17_NoSubscriberNoError ==
    \A id \in unsent : id \notin errors /\ id \in Ids(pushlog)

\* the first publish of a new broadcaster, and one after the only
\* subscriber was dropped
C17_Witness ==
    /\ 1 \in unsent
    /\ 3 \in unsent
    /\ 2 \notin unsent
    /\ \E s \in Subscribers : rx[s].state = "dropped"

\* ------------------------------------------------------------------------
\* Faults and the lifecycle of a role
\* ------------------------------------------------------------------------
\* C18: a failed unit of work never ends a worker loop: a role whose unit
\* failed is still in its loop unless its own shutdown flag was set (or a
\* later unit panicked), no worker has left its loop without its flag being
\* set, and the pump has ended only with the global flag set.
C18_FailureIsolated ==
    /\ \A r \in Roles :
          /\ wpc[r] = "stopped" => agent_shutdown[r]
          /\ failed[r] => wpc[r] \in {"select", "work", "stopped", "panicked"}
    /\ pumpPc = "done" => shutdown_signal

\* after a failure of the risk worker it is in a later unit of work, while
\* its sibling and the pump run on
C18_Witness ==
    /\ failed["risk_management"]
    /\ wpc["risk_management"] = "work"
    /\ wpc["learning"] \in {"select", "work"}
    /\ pumpPc \in {"check", "recv"}
    /\ mainPc = "running"

\* C19: a panic of a worker task does not end the orchestrator's run
\* operation: run() has returned only because the pump or the sampler
\* ended or because every worker returned from its loop.
C19_PanicContained ==
    mainPc = "run_returned" =>
       \/ pumpPc = "done"
       \/ samplerPc = "done"
       \/ \A r \in Roles : agents[r] => wpc[r] = "stopped"

\* the stage of a role: created, running, shutdown requested, stopped
Stage(pc, flag) ==
    CASE pc = "none" -> 0
      [] pc = "stopped" -> 3
      [] flag -> 2
      [] OTHER -> 1

\* C20: the lifecycle of a role only moves forward, one stage at a time:
\* the role's flag and the global flag, once set, stay set, and a worker
\* that has stopped stays stopped and begins no unit of work.
C20_LifecycleMonotonic ==
    [][/\ shutdown_signal => shutdown_signal'
       /\ \A r \in Roles :
             /\ agent_shutdown[r] => agent_shutdown'[r]
             /\ wpc[r] = "stopped" => wpc'[r] = "stopped"
             /\ Stage(wpc'[r], agent_shutdown'[r])
                   \in { Stage(wpc[r], agent_shutdown[r]),
                         Stage(wpc[r], agent_shutdown[r]) + 1 }]_vars

\* all five roles went through the four stages
C20_Witness ==
    /\ shutdown_signal
    /\ \A r \in Roles : agent_shutdown[r] /\ wpc[r] = "stopped"

\* ------------------------------------------------------------------------
\* Routing, the channel and the context's owners
\* ------------------------------------------------------------------------
\* C21: a message whose type no arm names is silently ignored: the pump's
\* step on it leaves every field of the context as it was, does not end the
\* pump and goes back to the top of the loop for the next message.
C21_UnhandledIgnored ==
    [][(/\ pumpPc = "match"
        /\ pumpPc' # "match"
        /\ pumpMsg.type \notin HandledTypes)
          => /\ system_context' = system_context
             /\ pumpPc' = "check"
             /\ pumpExit' = pumpExit
             /\ shutdown_signal' = shutdown_signal]_vars

\* an unhandled message was routed and the pump holds the one sent after it
C21_Witness ==
    /\ Len(processed) = 2
    /\ processed[1].type \notin HandledTypes
    /\ pumpPc = "match"
    /\ pumpMsg = processed[2]
    /\ system_context = InitialContext

\* C22: only an emergency-shutdown message stops the pump or changes the
\* global flag: the pump's step on any other message (a performance update
\* with a payload that decodes or not, a risk alert, an unknown type) leaves
\* the flag as it was and does not end the pump, and the pump never records
\* an emergency exit for a message of another type.
C22_OnlyEmergencyStops ==
    [][/\ (/\ pumpPc = "match"
           /\ pumpPc' # "match"
           /\ pumpMsg.type # "EmergencyShutdown")
             => /\ shutdown_signal' = shutdown_signal
                /\ pumpPc' # "done"
       /\ (pumpExit' = "emergency" /\ pumpExit # "emergency")
             => pumpMsg.type = "EmergencyShutdown"]_vars

\* a risk alert and a performance update that does not decode were both
\* routed; the flag is clear and the pump waits for more
C22_Witness ==
    /\ Len(processed) = 2
    /\ processed[1].type = "RiskAlert"
    /\ processed[2].type = "PerformanceUpdate"
    /\ ~Decodes(processed[2].payload)
    /\ pumpPc = "recv"
    /\ ~shutdown_signal

\* C23: send never blocks and never fails: whatever the length of the queue
\* and wherever the pump is (running, waiting, stalled or ended), a sender
\* that has a message to send can append it at once (up to the model's bound
\* on the messages sent), be it a worker in its unit of work or the bus's
\* own sender.
C23_SendNeverBlocks ==
    nsent < MaxSends =>
        /\ \A r \in Roles :
              (wpc[r] = "work" /\ outbox[r] # << >>) => ENABLED WorkSend(r)
        /\ mainPc # "new" => ENABLED Broadcast

\* the pump has ended and two messages, one of them a worker's, were
\* accepted all the same
C23_Witness ==
    /\ pumpPc = "done"
    /\ Len(queue) = 2
    /\ \E i \in 1..2 : queue[i].from # "bus"

\* C24: every message a send accepted is consumed exactly once: the
\* messages the pump has taken followed by those still queued are, at any
\* moment, the accepted messages, each of them once (nothing is taken twice,
\* nothing is skipped or lost while the pump runs), and the pump holds a
\* message exactly while it matches it, which is the last one it took.
C24_ConsumedExactlyOnce ==
    LET all == processed \o queue IN
       /\ Len(all) = nsent
       /\ \A i \in 1..Len(all) : \A j \in 1..Len(all) :
             all[i].id = all[j].id => i = j
       /\ {all[i].id : i \in 1..Len(all)} = 1..nsent
       /\ (pumpPc = "match") <=> (pumpMsg # NoMsg)
       /\ pumpMsg # NoMsg => pumpMsg = processed[Len(processed)]

\* both accepted messages were taken and routed, the first one's payload
\* is in the context, and the pump waits on the empty channel
C24_Witness ==
    /\ nsent = 2
    /\ Len(processed) = 2
    /\ queue = << >>
    /\ pumpPc = "recv"
    /\ processed[1].type = "PerformanceUpdate"
    /\ system_context.performance_metrics = processed[1].payload

\* C30: routing a performance update whose payload decodes replaces the
\* performance metrics of the context by the payload and leaves every other
\* field as it was; when the payload does not decode the whole context is
\* left as it was; either way routing succeeds and the pump loops.
C30_PerformanceUpdateRouted ==
    [][(/\ pumpPc = "match"
        /\ pumpPc' # "match"
        /\ pumpMsg.type = "PerformanceUpdate")
          => /\ pumpPc' = "check"
             /\ IF Decodes(pumpMsg.payload)
                   THEN /\ system_context'.performance_metrics
                              = pumpMsg.payload
                        /\ \A f \in DOMAIN system_context
                                       \ {"performance_metrics"} :
                              system_context'[f] = system_context[f]
                   ELSE system_context' = system_context]_vars

\* an update that decodes was applied, then one that does not decode was
\* routed and left the first one's metrics in place
C30_Witness ==
    /\ Len(processed) = 2
    /\ processed[1].type = "PerformanceUpdate"
    /\ Decodes(processed[1].payload)
    /\ processed[2].type = "PerformanceUpdate"
    /\ ~Decodes(processed[2].payload)
    /\ pumpPc = "check"
    /\ system_context.performance_metrics = processed[1].payload
    /\ system_context.performance_metrics # InitialContext.performance_metrics

\* C25: every registered role's worker holds a handle to the one context
\* the orchestrator owns: whatever the router has applied, the snapshot a
\* role would take now is the orchestrator's context.
C25_WorkersShareContext ==
    \A r \in Roles : agents[r] => AgentContext(r) = system_context

\* C26: the context is changed by the router only (the sampler, which the
\* claim also allows, only reads it): a step that changes any field is the
\* pump's step on a performance update, and no step of a role's worker (tick,
\* send, end of the unit, poll) nor of shutdown() or run() changes a field.
C26_OnlyRouterWrites ==
    [][/\ (system_context' # system_context)
             => /\ pumpPc = "match"
                /\ pumpPc' = "check"
                /\ pumpMsg.type = "PerformanceUpdate"
       /\ (\/ wpc' # wpc
           \/ outbox' # outbox
           \/ agent_shutdown' # agent_shutdown
           \/ mainPc' # mainPc
           \/ sdIdx' # sdIdx)
             => system_context' = system_context]_vars

\* the router changed the context, a worker that takes snapshots is in a
\* unit of work begun since, and shutdown() has run to its end
C26_Witness ==
    /\ system_context # InitialContext
    /\ mainPc = "shutdown_done"
    /\ \E r \in ContextReaders : wpc[r] = "work" /\ agent_shutdown[r]

ClaimedBucket(p) ==
    CASE p < 20              -> "VeryLow"
      [] p >= 20 /\ p < 40   -> "Low"
      [] p >= 40 /\ p < 60   -> "Medium"
      [] p >= 60 /\ p < 80   -> "High"
      [] p >= 80             -> "VeryHigh"

BucketRank(l) ==
    CASE l = "VeryLow" -> 1 [] l = "Low" -> 2 [] l = "Medium" -> 3
      [] l = "High" -> 4 [] l = "VeryHigh" -> 5

\* C28: every record the constructor builds carries the bucket of its
\* confidence (below 0.2 very low, from 0.2 low, from 0.4 medium, from 0.6
\* high, from 0.8 very high: a threshold belongs to the higher bucket), the
\* mapping is monotone, and no builder method changes the confidence or its
\* bucket.
C28_BucketOfConfidence ==
    [][/\ (draft' # NoDraft /\ ~draft'.confidence.nan)
             => draft'.confidence_level
                   = ClaimedBucket(draft'.confidence.pct)
       /\ \A c1 \in Confidences : \A c2 \in Confidences :
             (~c1.nan /\ ~c2.nan /\ c1.pct <= c2.pct)
                => BucketRank(ConfidenceLevelFrom(c1))
                      <= BucketRank(ConfidenceLevelFrom(c2))
       /\ (draft # NoDraft /\ draft' # NoDraft)
             => /\ draft'.confidence = draft.confidence
                /\ draft'.confidence_level = draft.confidence_level]_vars

\* a record built with confidence 0.8, the highest threshold, carries the
\* highest bucket after every builder method was applied to it
C28_Witness ==
    /\ draft # NoDraft
    /\ draft.confidence = [nan |-> FALSE, pct |-> 80]
    /\ draft.confidence_level = "VeryHigh"
    /\ draft.educational
    /\ draft.impact_level = "High"
    /\ draft.reasoning = "given"
    /\ draft.supporting_data = "given"
    /\ draft.symbols = "given"
    /\ draft.tags = "given"
    /\ draft.planned_actions = "given"

\* C29: once start() has returned a role has a handle in the registry
\* exactly when the configuration enables it, and from then on no step
\* (shutdown() and its per-role requests included) adds or removes a handle.
C29_RegistryMatchesConfig ==
    [][/\ mainPc' # "new"
             => \A r \in Roles : agents'[r] <=> (r \in enabled')
       /\ mainPc # "new" => agents' = agents]_vars

\* shutdown() has run to its end: the enabled roles still have their
\* handles, the disabled ones have none
C29_Witness ==
    /\ mainPc = "shutdown_done"
    /\ agents["risk_management"]
    /\ agent_shutdown["risk_management"]
    /\ agents["execution"]
    /\ ~agents["coordinator"]

\* ------------------------------------------------------------------------
\* Behaviour the code shows beyond the specification's text
\* ------------------------------------------------------------------------
\* C31: shutdown() sets the global flag first and then the flags of the
\* registered roles in the reverse of the start order, skipping the roles
\* without a handle: a role's flag is set only with the global flag set,
\* only if the role is registered, and only after the flag of every
\* registered role started after it.
C31_FlagsInReverseStartOrder ==
    \A i \in 1..Len(StartOrder) :
       agent_shutdown[StartOrder[i]] =>
          /\ shutdown_signal
          /\ agents[StartOrder[i]]
          /\ \A j \in (i + 1)..Len(StartOrder) :
                agents[StartOrder[j]] => agent_shutdown[StartOrder[j]]

\* shutdown() is on its way with intelligence and execution not
\* registered: learning and risk have their flags, the coordinator not yet
C31_Witness ==
    /\ mainPc = "shutdown"
    /\ ~agents["execution"]
    /\ ~agents["intelligence"]
    /\ agent_shutdown["learning"]
    /\ agent_shutdown["risk_management"]
    /\ agents["coordinator"]
    /\ ~agent_shutdown["coordinator"]

\* the snapshot the risk worker takes breaches the daily loss limit
LossBreached ==
    AgentContext("risk_management").daily_pnl < -risk_config.max_daily_loss

\* C32: a tick of the risk worker whose snapshot breaches the daily loss
\* limit sends an emergency-shutdown message, after a risk alert when the
\* portfolio heat is over its limit too, and a breach seen by a running
\* risk worker leads to the pump having ended with the global flag set.
C32_LossBreachHaltsPump ==
    /\ [][(/\ wpc["risk_management"] = "select"
           /\ wpc'["risk_management"] = "work"
           /\ LossBreached)
             => outbox'["risk_management"] =
                   IF PortfolioHeat(AgentContext("risk_management"))
                         > risk_config.max_portfolio_heat
                      THEN << "RiskAlert", "EmergencyShutdown" >>
                      ELSE << "EmergencyShutdown" >>]_vars
    /\ (wpc["risk_management"] = "select" /\ LossBreached)
          ~> (pumpPc = "done" /\ shutdown_signal)

\* the risk worker's emergency message was the one that ended the pump
C32_Witness ==
    /\ pumpExit = "emergency"
    /\ pumpPc = "done"
    /\ shutdown_signal
    /\ processed[Len(processed)].from = "risk_management"
    /\ processed[Len(processed)].type = "EmergencyShutdown"
    /\ mainPc = "running"

\* C33: run() returns when the first of these has happened: the pump task
\* has finished, the sampler task has finished, or every worker task has
\* finished.  It can return as soon as one of them holds, it returns for no
\* other reason, and its return leaves every worker where it was: neither
\* stopped nor asked to stop.
C33_RunReturnsOnFirstCompletion ==
    [][/\ (/\ mainPc = "running"
           /\ \/ pumpPc = "done"
              \/ samplerPc = "done"
              \/ \A r \in Roles :
                    agents[r] => wpc[r] \in {"stopped", "panicked"})
             => ENABLED RunReturn
       /\ (mainPc = "running" /\ mainPc' = "run_returned")
             => /\ \/ pumpPc = "done"
                   \/ samplerPc = "done"
                   \/ \A r \in Roles :
                         agents[r] => wpc[r] \in {"stopped", "panicked"}
                /\ wpc' = wpc
                /\ agent_shutdown' = agent_shutdown]_vars

\* run() has returned because the pump ended while a worker, never asked
\* to stop, is still in its loop
C33_Witness ==
    /\ mainPc = "run_returned"
    /\ pumpPc = "done"
    /\ \E r \in Roles :
          agents[r] /\ wpc[r] \in {"select", "work"} /\ ~agent_shutdown[r]

\* the place of record t in the sequence seq
Position(seq, t) == CHOOSE k \in 1..Len(seq) : seq[k] = t

\* C34: with concurrent publishers a subscriber receives the records in
\* the order in which they were appended to the history.
C34_StreamFollowsHistory ==
    \A s \in Subscribers :
       \A i \in 1..Len(stream[s]) : \A j \in 1..Len(stream[s]) :
          i < j => Position(pushlog, stream[s][i])
                      < Position(pushlog, stream[s][j])

\* how many records subscriber s has still to receive
Behind(s) == Len(channel) - rx[s].next + 1

\* C35: a live subscriber that is not more than the channel's capacity
\* behind receives, at each recv, the next record in send order, and a
\* subscriber that has skipped nothing holds the records sent since it
\* subscribed, each once and in send order; a recv skips records only
\* when the subscriber is more than the capacity behind.
C35_WithinCapacityNothingSkipped ==
    [][\A s \in Subscribers :
          /\ (/\ rx[s].state = "live"
              /\ rx'[s].next # rx[s].next
              /\ Behind(s) <= ChannelCapacity)
                => /\ rx'[s].next = rx[s].next + 1
                   /\ stream'[s] = Append(stream[s], channel[rx[s].next])
          /\ (/\ rx'[s].state = "live"
              /\ rx'[s].next = rx'[s].start + Len(stream'[s]))
                => stream'[s] =
                      SubSeq(channel', rx'[s].start, rx'[s].next - 1)]_vars

\* a subscriber present from the first send on has received all three
\* records, never more than the capacity behind
C35_Witness ==
    \E s \in Subscribers :
       /\ rx[s].state = "live"
       /\ rx[s].start = 1
       /\ Len(channel) = 3
       /\ stream[s] = channel

\* C36: once the global flag is set the pump begins at most one more
\* message: the flag is never cleared, a pump that reads the flag set ends
\* its loop whatever is queued, and a pump that has ended takes nothing
\* more from the channel.
C36_AtMostOneMoreMessage ==
    [][/\ shutdown_signal => shutdown_signal'
       /\ (pumpPc = "check" /\ shutdown_signal)
             => pumpPc' \in {"check", "done"}
       /\ (pumpPc = "recv" /\ pumpPc' # "recv") => pumpPc' = "match"
       /\ (pumpPc = "match" /\ pumpPc' # "match")
             => pumpPc' \in {"check", "done"}
       /\ pumpPc = "done"
             => /\ pumpPc' = "done"
                /\ processed' = processed
                /\ Len(queue') >= Len(queue)]_vars

\* shutdown() has set the flag; the pump, having processed one message,
\* read the flag and ended with a message left in the channel
C36_Witness ==
    /\ mainPc \in {"shutdown", "shutdown_done"}
    /\ pumpPc = "done"
    /\ pumpExit = "flag"
    /\ Len(processed) = 1
    /\ queue # << >>

\* C39: after the pump has ended a worker's send still succeeds (the
\* message is appended to the channel), and from then on nothing is taken
\* from the channel and the context stays as it is.
C39_SendAfterPumpEnded ==
    [][pumpPc = "done" =>
          /\ \A r \in Roles :
                (wpc[r] = "work" /\ outbox'[r] # outbox[r] /\ wpc'[r] = "work")
                   => /\ Len(queue') = Len(queue) + 1
                      /\ SubSeq(queue', 1, Len(queue)) = queue
                      /\ queue'[Len(queue')].from = r
                      /\ queue'[Len(queue')].type = Head(outbox[r])
          /\ Len(queue') >= Len(queue)
          /\ processed' = processed
          /\ system_context' = system_context]_vars

\* the pump has ended on the flag, and a worker's message sent since is
\* queued
C39_Witness ==
    /\ pumpPc = "done"
    /\ queue # << >>
    /\ queue[Len(queue)].from \in Roles
    /\ queue[Len(queue)].id > Len(processed) + 1

\* a select! whose tick is ready while its poll sleep has not elapsed
TickBeforePoll(r) ==
    wpc[r] = "select" /\ tickLeft[r] <= 0 /\ sleepLeft[r] > 0

\* C38: a worker's first step is a unit of work: its task starts in a
\* select! whose tick is ready and whose poll sleep has not elapsed, and
\* from such a select! the worker goes nowhere but into the unit of work
\* (no poll, no exit, no time passing), whether its flag is set or not.
C38_FirstUnitBeforeFirstPoll ==
    [][\A r \in Roles :
          /\ (mainPc = "started" /\ mainPc' = "running" /\ agents[r])
                => /\ wpc'[r] = "select"
                   /\ tickLeft'[r] <= 0
                   /\ sleepLeft'[r] > 0
          /\ TickBeforePoll(r)
                => /\ wpc'[r] \in {"select", "work"}
                   /\ wpc'[r] = "select"
                         => /\ tickLeft'[r] = tickLeft[r]
                            /\ sleepLeft'[r] = sleepLeft[r]]_vars

\* a worker whose flag was set while it was in select! has begun a unit
\* of work all the same
C38_Witness ==
    \E r \in Roles :
       /\ agent_shutdown[r]
       /\ ~reqInWork[r]
       /\ wpc[r] = "work"
       /\ tickLeft[r] = period[r]

\* C40: for every variant of TradingError is_recoverable is the negation
\* of requires_shutdown: Shutdown, EmergencyStop and CircuitBreaker are not
\* recoverable and require shutdown, every other variant is recoverable
\* and does not.
C40_RecoverableNegatesShutdown ==
    \A i \in 1..Len(classified) :
       /\ classified[i].is_recoverable = ~classified[i].requires_shutdown
       /\ classified[i].requires_shutdown
             <=> (classified[i].error
                     \in {"Shutdown", "EmergencyStop", "CircuitBreaker"})

\* a circuit breaker and a configuration error were classified
C40_Witness ==
    /\ Len(classified) = 2
    /\ classified[1].error = "CircuitBreaker"
    /\ ~classified[1].is_recoverable
    /\ classified[2].error = "Config"
    /\ classified[2].is_recoverable

\* the locks the claim names (the receiver's lock is not one of them)
NamedLocks == {"context", "global", "role", "history"}

\* the named locks task t holds a guard of
HeldNamed(t) == {g \in ltask[t].held : g.lock \in NamedLocks}

\* the step task t is about to take makes it wait
AboutTo(t, op) == Walking(t) /\ ltask[t].path[ltask[t].at].op = op

\* C37: no task waits for a lock while it holds a guard of one of the
\* named locks, the pump holds none of them while it waits for a message,
\* and a task that cannot be granted a lock waits for a guard whose holder
\* is about to drop it.
C37_NoHoldAndWait ==
    \A t \in LockTasks :
       /\ (AboutTo(t, "acquire") \/ AboutTo(t, "recv")) => HeldNamed(t) = {}
       /\ (/\ AboutTo(t, "acquire")
           /\ ~Grantable(ltask[t].path[ltask[t].at].lock,
                         ltask[t].path[ltask[t].at].mode))
             => \E u \in LockTasks \ {t} :
                   /\ AboutTo(u, "release")
                   /\ ltask[u].path[ltask[u].at].lock
                         = ltask[t].path[ltask[t].at].lock

\* the pump waits for a message under the receiver's guard alone while
\* shutdown() waits for the global flag, which the sampler is reading, and
\* the publisher holds the history that the query wants
C37_Witness ==
    /\ AboutTo("pump", "recv")
    /\ ltask["pump"].held = {[lock |-> "receiver", mode |-> "write"]}
    /\ AboutTo("shutdown", "acquire")
    /\ ltask["sampler"].held = {[lock |-> "global", mode |-> "read"]}
    /\ ltask["publisher"].held = {[lock |-> "history", mode |-> "write"]}
    /\ AboutTo("query", "acquire")

====
